---- MODULE Spec2Model ----
(***************************************************************************)
(* A model of scripts/tla_trace_to_json.py: the list splitter, the value   *)
(* parser, the line-by-line trace builder and the JSON emitting main.      *)
(*                                                                         *)
(* Text is a sequence of one-character strings.  A Python value is a       *)
(* record [t, n, s, kids]: t is the Python type (and, for the dicts the    *)
(* parser builds, their "type" entry), n an integer payload, s a text      *)
(* payload and kids the ordered children.  An exception is the value       *)
(* Raised.                                                                 *)
(***************************************************************************)
EXTENDS Integers, Sequences, FiniteSets, TLC

(***************************************************************************)
(* Text primitives (Python str methods).                                   *)
(***************************************************************************)
Whitespace == {" ", "\t", "\n", "\r"}

Digits == {"0", "1", "2", "3", "4", "5", "6", "7", "8", "9"}

WordChars ==
  Digits \cup {"_"} \cup
  {"a", "b", "c", "d", "e", "f", "g", "h", "i", "j", "k", "l", "m", "n", "o",
   "p", "q", "r", "s", "t", "u", "v", "w", "x", "y", "z"} \cup
  {"A", "B", "C", "D", "E", "F", "G", "H", "I", "J", "K", "L", "M", "N", "O",
   "P", "Q", "R", "S", "T", "U", "V", "W", "X", "Y", "Z"}

Min(S) == CHOOSE x \in S : \A y \in S : x <= y

Max(S) == CHOOSE x \in S : \A y \in S : y <= x

\* The positions of s that hold no whitespace.
non_space(s) == {i \in 1..Len(s) : s[i] \notin Whitespace}

lstrip(s) ==
  IF non_space(s) = {} THEN <<>> ELSE SubSeq(s, Min(non_space(s)), Len(s))

rstrip(s) ==
  IF non_space(s) = {} THEN <<>> ELSE SubSeq(s, 1, Max(non_space(s)))

strip(s) == lstrip(rstrip(s))

startswith(s, p) == Len(s) >= Len(p) /\ SubSeq(s, 1, Len(p)) = p

endswith(s, p) == Len(s) >= Len(p) /\ SubSeq(s, Len(s) - Len(p) + 1, Len(s)) = p

\* str.find, 1-based; 0 when p does not occur in s.
find(s, p) ==
  LET hits == {i \in 1..(Len(s) - Len(p) + 1) : SubSeq(s, i, i + Len(p) - 1) = p}
  IN  IF hits = {} THEN 0 ELSE Min(hits)

contains(s, p) == find(s, p) # 0

\* s.split(sep, 1) for a sep that occurs in s: the text before and after the
\* first occurrence.
split_first(s, sep) ==
  LET i == find(s, sep)
  IN  <<SubSeq(s, 1, i - 1), SubSeq(s, i + Len(sep), Len(s))>>

\* s.split(sep): every piece between successive occurrences of sep.
RECURSIVE split_all(_, _)
split_all(s, sep) ==
  IF ~contains(s, sep)
  THEN <<s>>
  ELSE <<split_first(s, sep)[1]>> \o split_all(split_first(s, sep)[2], sep)

\* sep.join(parts)
RECURSIVE join(_, _)
join(sep, parts) ==
  IF parts = <<>> THEN <<>>
  ELSE IF Len(parts) = 1 THEN parts[1]
  ELSE parts[1] \o sep \o join(sep, Tail(parts))

\* s[1:-1] and s[2:-2]
slice_1(s) == SubSeq(s, 2, Len(s) - 1)

slice_2(s) == SubSeq(s, 3, Len(s) - 2)

DigitVal(c) ==
  CASE c = "0" -> 0 [] c = "1" -> 1 [] c = "2" -> 2 [] c = "3" -> 3
    [] c = "4" -> 4 [] c = "5" -> 5 [] c = "6" -> 6 [] c = "7" -> 7
    [] c = "8" -> 8 [] c = "9" -> 9

\* re.match(r'^-?\d+$', s) on stripped text
is_integer(s) ==
  LET body == IF s # <<>> /\ Head(s) = "-" THEN Tail(s) ELSE s
  IN  body # <<>> /\ \A i \in 1..Len(body) : body[i] \in Digits

RECURSIVE digits_value(_)
digits_value(ds) ==
  IF ds = <<>> THEN 0
  ELSE 10 * digits_value(SubSeq(ds, 1, Len(ds) - 1)) + DigitVal(ds[Len(ds)])

\* int(s) for s accepted by is_integer
int(s) == IF Head(s) = "-" THEN 0 - digits_value(Tail(s)) ELSE digits_value(s)

(***************************************************************************)
(* Python values.                                                          *)
(***************************************************************************)
PyBool(b) == [t |-> "bool", n |-> IF b THEN 1 ELSE 0, s |-> <<>>, kids |-> <<>>]

PyInt(n) == [t |-> "int", n |-> n, s |-> <<>>, kids |-> <<>>]

PyStr(s) == [t |-> "str", n |-> 0, s |-> s, kids |-> <<>>]

PyNone == [t |-> "none", n |-> 0, s |-> <<>>, kids |-> <<>>]

\* {"type": "set", "elements": [...]}
PySet(elements) == [t |-> "set", n |-> 0, s |-> <<>>, kids |-> elements]

\* {"type": "sequence", "elements": [...]}
PySequence(elements) == [t |-> "sequence", n |-> 0, s |-> <<>>, kids |-> elements]

\* One item of a dict with text keys: name -> value.
Field(name, value) == [t |-> "field", n |-> 0, s |-> name, kids |-> <<value>>]

\* {"type": "record", "fields": {...}}; the dict keeps insertion order.
PyRecord(fields) == [t |-> "record", n |-> 0, s |-> <<>>, kids |-> fields]

\* One item of a dict with value keys: key -> value.
Pair(key, value) == [t |-> "pair", n |-> 0, s |-> <<>>, kids |-> <<key, value>>]

\* {"type": "function", "mapping": {...}}; the dict keeps insertion order.
PyFunction(mapping) == [t |-> "function", n |-> 0, s |-> <<>>, kids |-> mapping]

\* An exception leaving the call (TypeError: unhashable type: 'dict').
Raised == [t |-> "TypeError", n |-> 0, s |-> <<>>, kids |-> <<>>]

\* Only bool, int, str and None are hashable; the parser's dicts are not.
hashable(v) == v.t \in {"bool", "int", "str", "none"}

\* Key equality of a Python dict: True == 1 and False == 0.
py_eq(a, b) ==
  \/ a.t \in {"bool", "int"} /\ b.t \in {"bool", "int"} /\ a.n = b.n
  \/ a.t = "str" /\ b.t = "str" /\ a.s = b.s
  \/ a.t = "none" /\ b.t = "none"

\* fields[name] = value: an existing key keeps its place and takes the value.
set_field(fields, name, value) ==
  IF \E i \in 1..Len(fields) : fields[i].s = name
  THEN [i \in 1..Len(fields) |->
          IF fields[i].s = name THEN Field(name, value) ELSE fields[i]]
  ELSE Append(fields, Field(name, value))

\* mapping[key] = value for a hashable key: an equal key keeps its place (and
\* its first key object) and takes the value.
set_item(mapping, key, value) ==
  IF \E i \in 1..Len(mapping) : py_eq(mapping[i].kids[1], key)
  THEN [i \in 1..Len(mapping) |->
          IF py_eq(mapping[i].kids[1], key)
          THEN Pair(mapping[i].kids[1], value)
          ELSE mapping[i]]
  ELSE Append(mapping, Pair(key, value))

any_raised(vs) == \E i \in 1..Len(vs) : vs[i] = Raised

(***************************************************************************)
(* split_tla_list                                                          *)
(***************************************************************************)
\* The branch of the if/elif chain taken for the character at position i,
\* given the loop's in_string and depth.
split_branch(s, i, depth, in_string) ==
  LET c == s[i]
  IN  IF c = "\"" /\ (i = 1 \/ s[i - 1] # "\\") THEN "quote"
      ELSE IF in_string THEN "string"
      ELSE IF c \in {"{", "[", "(", "<"} THEN "open"
      ELSE IF c \in {"}", "]", ")", ">"} THEN "close"
      ELSE IF c = "," /\ depth = 0 THEN "separator"
      ELSE "other"

\* in_string when the loop reaches position i: the first branch is the only
\* one that assigns it, it is taken whatever the loop's state, and it flips
\* the flag.
in_string_at(s, i) ==
  Cardinality({j \in 1..(i - 1) : split_branch(s, j, 0, FALSE) = "quote"}) % 2 = 1

\* depth when the loop reaches position i: the "open" iterations so far less
\* the "close" ones (whether an iteration is one of these does not depend on
\* depth, so any depth is passed).
depth_at(s, i) ==
  Cardinality({j \in 1..(i - 1) : split_branch(s, j, 0, in_string_at(s, j)) = "open"})
    - Cardinality({j \in 1..(i - 1) :
                     split_branch(s, j, 0, in_string_at(s, j)) = "close"})

\* The positions at which the loop appends current to elements.
separators(s) ==
  {i \in 1..Len(s) :
     split_branch(s, i, depth_at(s, i), in_string_at(s, i)) = "separator"}

\* split_tla_list with the strip of lines 157 and 164 left out.
split_tla_list_unstripped(s) ==
  LET seps == separators(s)
      cut(k) == IF k = 0 THEN 0
                ELSE IF k > Cardinality(seps) THEN Len(s) + 1
                ELSE CHOOSE i \in seps : Cardinality({j \in seps : j < i}) = k - 1
      elements == [k \in 1..(Cardinality(seps) + 1) |->
                     SubSeq(s, cut(k - 1) + 1, cut(k) - 1)]
  IN  SelectSeq(elements, LAMBDA e : strip(e) # <<>>)

\* Every other character is appended to current, so the texts current holds
\* at the separators and at the end are the stretches of s between
\* separators; the stripped stretches are the elements, and the last line
\* drops the empty ones (a last stretch that was never appended is empty).
split_tla_list(s) ==
  LET seps == separators(s)
      cut(k) == IF k = 0 THEN 0
                ELSE IF k > Cardinality(seps) THEN Len(s) + 1
                ELSE CHOOSE i \in seps : Cardinality({j \in seps : j < i}) = k - 1
      elements == [k \in 1..(Cardinality(seps) + 1) |->
                     strip(SubSeq(s, cut(k - 1) + 1, cut(k) - 1))]
  IN  SelectSeq(elements, LAMBDA e : e # <<>>)

(***************************************************************************)
(* parse_tla_value                                                         *)
(***************************************************************************)
RECURSIVE parse_tla_value(_)

\* [parse_tla_value(e) for e in elements]
parse_elements(elements) == [i \in 1..Len(elements) |-> parse_tla_value(elements[i])]

\* The record branch's loop over parts, from the fields built so far.
RECURSIVE parse_fields(_, _)
parse_fields(parts, fields) ==
  IF parts = <<>> THEN PyRecord(fields)
  ELSE LET part == Head(parts)
       IN  IF contains(part, <<" ", "|", "-", ">", " ">>)
           THEN LET fv == split_first(part, <<" ", "|", "-", ">", " ">>)
                    v == parse_tla_value(strip(fv[2]))
                IN  IF v = Raised THEN Raised
                    ELSE parse_fields(Tail(parts), set_field(fields, strip(fv[1]), v))
           ELSE parse_fields(Tail(parts), fields)

\* The function branch's loop over parts, from the mapping built so far.
RECURSIVE parse_mapping(_, _)
parse_mapping(parts, mapping) ==
  IF parts = <<>> THEN PyFunction(mapping)
  ELSE LET part == strip(Head(parts))
       IN  IF contains(part, <<":", ">">>)
           THEN LET kv == split_first(part, <<":", ">">>)
                    v == parse_tla_value(strip(kv[2]))
                    k == parse_tla_value(strip(kv[1]))
                IN  IF v = Raised \/ k = Raised \/ ~hashable(k) THEN Raised
                    ELSE parse_mapping(Tail(parts), set_item(mapping, k, v))
           ELSE parse_mapping(Tail(parts), mapping)

parse_tla_value(text) ==
  LET value_str == strip(text)
  IN  IF value_str = <<"T", "R", "U", "E">> THEN PyBool(TRUE)
      ELSE IF value_str = <<"F", "A", "L", "S", "E">> THEN PyBool(FALSE)
      ELSE IF is_integer(value_str) THEN PyInt(int(value_str))
      ELSE IF startswith(value_str, <<"\"">>) /\ endswith(value_str, <<"\"">>)
        THEN PyStr(slice_1(value_str))
      ELSE IF startswith(value_str, <<"{">>) /\ endswith(value_str, <<"}">>)
        THEN LET inner == strip(slice_1(value_str))
                 elements == parse_elements(split_tla_list(inner))
             IN  IF inner = <<>> THEN PySet(<<>>)
                 ELSE IF any_raised(elements) THEN Raised
                 ELSE PySet(elements)
      ELSE IF startswith(value_str, <<"<", "<">>) /\ endswith(value_str, <<">", ">">>)
        THEN LET inner == strip(slice_2(value_str))
                 elements == parse_elements(split_tla_list(inner))
             IN  IF inner = <<>> THEN PySequence(<<>>)
                 ELSE IF any_raised(elements) THEN Raised
                 ELSE PySequence(elements)
      ELSE IF startswith(value_str, <<"[">>) /\ endswith(value_str, <<"]">>)
        THEN LET inner == strip(slice_1(value_str))
             IN  IF inner = <<>> THEN PyRecord(<<>>)
                 ELSE parse_fields(split_tla_list(inner), <<>>)
      ELSE IF /\ startswith(value_str, <<"(">>)
              /\ endswith(value_str, <<")">>)
              /\ contains(value_str, <<":", ">">>)
        THEN parse_mapping(split_all(strip(slice_1(value_str)), <<"@", "@">>), <<>>)
      ELSE IF value_str \in {<<"N", "U", "L", "L">>, <<"n", "u", "l", "l">>}
        THEN PyNone
      ELSE PyStr(value_str)

(***************************************************************************)
(* json.dump of Trace.to_dict().  A JSON value is again [t, n, s, kids]:   *)
(* an object's kids are its members in output order (a member is a Field,  *)
(* and the encoder does not merge members with equal names).               *)
(***************************************************************************)
None == <<>>

Some(x) == <<x>>

JNull == [t |-> "null", n |-> 0, s |-> <<>>, kids |-> <<>>]

JBool(b) == [t |-> IF b THEN "true" ELSE "false", n |-> 0, s |-> <<>>, kids |-> <<>>]

JNumber(n) == [t |-> "number", n |-> n, s |-> <<>>, kids |-> <<>>]

JString(s) == [t |-> "string", n |-> 0, s |-> s, kids |-> <<>>]

JArray(items) == [t |-> "array", n |-> 0, s |-> <<>>, kids |-> items]

JObject(members) == [t |-> "object", n |-> 0, s |-> <<>>, kids |-> members]

DigitChar(d) ==
  CASE d = 0 -> "0" [] d = 1 -> "1" [] d = 2 -> "2" [] d = 3 -> "3"
    [] d = 4 -> "4" [] d = 5 -> "5" [] d = 6 -> "6" [] d = 7 -> "7"
    [] d = 8 -> "8" [] d = 9 -> "9"

\* str(n) for an int n
RECURSIVE int_text(_)
int_text(n) ==
  IF n < 0 THEN <<"-">> \o int_text(0 - n)
  ELSE IF n < 10 THEN <<DigitChar(n)>>
  ELSE int_text(n \div 10) \o <<DigitChar(n % 10)>>

\* The JSON encoder's coercion of a dict key to a member name.
json_key(k) ==
  CASE k.t = "str" -> k.s
    [] k.t = "int" -> int_text(k.n)
    [] k.t = "bool" -> IF k.n = 1 THEN <<"t", "r", "u", "e">>
                       ELSE <<"f", "a", "l", "s", "e">>
    [] k.t = "none" -> <<"n", "u", "l", "l">>

\* The JSON encoding of a parsed value (a successfully parsed value holds
\* only hashable keys, so json_key is defined on every key met).
RECURSIVE to_json(_)
to_json(v) ==
  CASE v.t = "bool" -> JBool(v.n = 1)
    [] v.t = "int" -> JNumber(v.n)
    [] v.t = "str" -> JString(v.s)
    [] v.t = "none" -> JNull
    [] v.t \in {"set", "sequence"} ->
         JObject(<<Field(<<"t", "y", "p", "e">>,
                         JString(IF v.t = "set" THEN <<"s", "e", "t">>
                                 ELSE <<"s", "e", "q", "u", "e", "n", "c", "e">>)),
                   Field(<<"e", "l", "e", "m", "e", "n", "t", "s">>,
                         JArray([i \in 1..Len(v.kids) |-> to_json(v.kids[i])]))>>)
    [] v.t = "record" ->
         JObject(<<Field(<<"t", "y", "p", "e">>, JString(<<"r", "e", "c", "o", "r", "d">>)),
                   Field(<<"f", "i", "e", "l", "d", "s">>,
                         JObject([i \in 1..Len(v.kids) |->
                                    Field(v.kids[i].s, to_json(v.kids[i].kids[1]))]))>>)
    [] v.t = "function" ->
         JObject(<<Field(<<"t", "y", "p", "e">>,
                         JString(<<"f", "u", "n", "c", "t", "i", "o", "n">>)),
                   Field(<<"m", "a", "p", "p", "i", "n", "g">>,
                         JObject([i \in 1..Len(v.kids) |->
                                    Field(json_key(v.kids[i].kids[1]),
                                          to_json(v.kids[i].kids[2]))]))>>)

json_optional_text(o) == IF o = None THEN JNull ELSE JString(o[1])

\* One state of Trace.to_dict(), encoded.
state_to_json(st) ==
  JObject(<<Field(<<"s", "t", "a", "t", "e", "_", "n", "u", "m">>, JNumber(st.state_num)),
            Field(<<"a", "c", "t", "i", "o", "n">>, json_optional_text(st.action)),
            Field(<<"v", "a", "r", "i", "a", "b", "l", "e", "s">>,
                  JObject([i \in 1..Len(st.variables) |->
                             Field(st.variables[i].s,
                                   to_json(st.variables[i].kids[1]))]))>>)

\* json.dump(trace.to_dict(), ...)
to_dict(tr) ==
  JObject(<<Field(<<"s", "p", "e", "c", "_", "n", "a", "m", "e">>, JString(tr.spec_name)),
            Field(<<"i", "n", "v", "a", "r", "i", "a", "n", "t", "_",
                    "v", "i", "o", "l", "a", "t", "e", "d">>,
                  json_optional_text(tr.invariant_violated)),
            Field(<<"p", "r", "o", "p", "e", "r", "t", "y", "_",
                    "v", "i", "o", "l", "a", "t", "e", "d">>,
                  json_optional_text(tr.property_violated)),
            Field(<<"s", "t", "a", "t", "e", "s">>,
                  JArray([i \in 1..Len(tr.states) |-> state_to_json(tr.states[i])]))>>)

(***************************************************************************)
(* The regular expressions of parse_tlc_output.                            *)
(***************************************************************************)
\* The length of the longest run of characters of cs at the start of s.
run_length(s, cs) ==
  LET others == {i \in 1..Len(s) : s[i] \notin cs}
  IN  IF others = {} THEN Len(s) ELSE Min(others) - 1

drop(s, k) == SubSeq(s, k + 1, Len(s))

take(s, k) == SubSeq(s, 1, k)

\* re.search(prefix + r'(\w+)' + suffix, line): group 1 of the leftmost
\* match, or None.  (\w+ cannot give back characters to a suffix that
\* starts with a non-word character, so the run is the longest one.)
search_word(line, prefix, suffix) ==
  LET at(i) == LET rest == drop(line, i - 1 + Len(prefix))
                   k == run_length(rest, WordChars)
               IN  IF /\ startswith(drop(line, i - 1), prefix)
                      /\ k >= 1
                      /\ startswith(drop(rest, k), suffix)
                   THEN Some(take(rest, k))
                   ELSE None
      hits == {i \in 1..Len(line) : at(i) # None}
  IN  IF hits = {} THEN None
      ELSE at(Min(hits))

\* re.match(r'^State (\d+):', line): int(group 1), or None.
state_match(line) ==
  LET rest == drop(line, 6)
      k == run_length(rest, Digits)
  IN  IF /\ startswith(line, <<"S", "t", "a", "t", "e", " ">>)
         /\ k >= 1
         /\ startswith(drop(rest, k), <<":">>)
      THEN Some(int(take(rest, k)))
      ELSE None

\* re.search(r'<(\w+)', line): group 1, or None.
action_match(line) == search_word(line, <<"<">>, <<>>)

\* re.match(r'^/\\ (\w+) = (.+)$', line) on a line without line breaks:
\* <<group 1, group 2>>, or None.
var_match(line) ==
  LET rest == drop(line, 3)
      k == run_length(rest, WordChars)
      value == drop(rest, k + 3)
  IN  IF /\ startswith(line, <<"/", "\\", " ">>)
         /\ k >= 1
         /\ startswith(drop(rest, k), <<" ", "=", " ">>)
         /\ value # <<>>
      THEN Some(<<take(rest, k), value>>)
      ELSE None

TraceStart ==
  <<"E", "r", "r", "o", "r", ":", " ", "T", "h", "e", " ", "b", "e", "h", "a", "v",
    "i", "o", "r", " ", "u", "p", " ", "t", "o", " ", "t", "h", "i", "s", " ",
    "p", "o", "i", "n", "t", " ", "i", "s", ":">>

\* The invariant name a line announces, or None (lines 183-186).
invariant_match(line) ==
  IF /\ contains(line, <<"I", "n", "v", "a", "r", "i", "a", "n", "t">>)
     /\ contains(line, <<"i", "s", " ", "v", "i", "o", "l", "a", "t", "e", "d">>)
  THEN search_word(line, <<"I", "n", "v", "a", "r", "i", "a", "n", "t", " ">>,
                   <<" ", "i", "s", " ", "v", "i", "o", "l", "a", "t", "e", "d">>)
  ELSE None

\* The property name a line announces, or None (lines 189-192).
property_match(line) ==
  IF /\ contains(line, <<"P", "r", "o", "p", "e", "r", "t", "y">>)
     /\ contains(line, <<"i", "s", " ", "v", "i", "o", "l", "a", "t", "e", "d">>)
  THEN search_word(line, <<"P", "r", "o", "p", "e", "r", "t", "y", " ">>,
                   <<" ", "i", "s", " ", "v", "i", "o", "l", "a", "t", "e", "d">>)
  ELSE None

TraceState(state_num, action, variables) ==
  [state_num |-> state_num, action |-> action, variables |-> variables]

(***************************************************************************)
(* Inputs.  A well-formed literal is written the way TLC prints it; other  *)
(* text is a short string of the tokens of the value syntax.               *)
(***************************************************************************)
MaxElems == 2

MaxTokens == 3

MaxLines == 3

\* All sequences over S of length lo..hi.
SeqsOver(S, lo, hi) == UNION {[1..k -> S] : k \in lo..hi}

RECURSIVE concat(_)
concat(texts) == IF texts = <<>> THEN <<>> ELSE Head(texts) \o concat(Tail(texts))

Tokens ==
  {<<"a">>, <<"1">>, <<",">>, <<" ">>, <<"\"">>, <<"\\">>, <<"{">>, <<"}">>,
   <<"<", "<">>, <<">", ">">>, <<"[">>, <<"]">>, <<"(">>, <<")">>,
   <<" ", "|", "-", ">", " ">>, <<" ", ":", ">", " ">>}

TokenTexts == {concat(ts) : ts \in SeqsOver(Tokens, 0, MaxTokens)}

Scalars == {PyBool(TRUE), PyInt(1), PyInt(5), PyStr(<<"1">>)}

Nested ==
  {PySet(<<PyInt(1), PyInt(2)>>),
   PySequence(<<PyInt(1), PyInt(2)>>),
   PyRecord(<<Field(<<"a">>, PyInt(1))>>),
   PyFunction(<<Pair(PyInt(1), PyInt(2))>>)}

Inner == Scalars \cup Nested

FieldNames == {<<"a">>, <<"b">>}

SetLiterals == {PySet(es) : es \in SeqsOver(Inner, 0, MaxElems)}

SequenceLiterals == {PySequence(es) : es \in SeqsOver(Inner, 0, MaxElems)}

RecordLiterals ==
  {PyRecord([i \in 1..Len(ns) |-> Field(ns[i], vs[i])]) :
     <<ns, vs>> \in {p \in SeqsOver(FieldNames, 1, MaxElems)
                            \X SeqsOver(Inner, 1, MaxElems) :
                       /\ Len(p[1]) = Len(p[2])
                       /\ \A i, j \in 1..Len(p[1]) : p[1][i] = p[1][j] => i = j}}

FunctionLiterals ==
  {PyFunction(ps) :
     ps \in SeqsOver({Pair(k, v) : k \in Inner, v \in {PyInt(1), PyStr(<<"1">>)}},
                     1, MaxElems)}

Literals == Inner \cup SetLiterals \cup SequenceLiterals \cup RecordLiterals
              \cup FunctionLiterals

\* The text TLC prints for a literal.
RECURSIVE Render(_)
RenderAll(vs) == [i \in 1..Len(vs) |-> Render(vs[i])]

Render(v) ==
  CASE v.t = "bool" -> IF v.n = 1 THEN <<"T", "R", "U", "E">>
                       ELSE <<"F", "A", "L", "S", "E">>
    [] v.t = "int" -> int_text(v.n)
    [] v.t = "str" -> <<"\"">> \o v.s \o <<"\"">>
    [] v.t = "set" -> <<"{">> \o join(<<",", " ">>, RenderAll(v.kids)) \o <<"}">>
    [] v.t = "sequence" ->
         <<"<", "<">> \o join(<<",", " ">>, RenderAll(v.kids)) \o <<">", ">">>
    [] v.t = "record" ->
         <<"[">> \o join(<<",", " ">>, RenderAll(v.kids)) \o <<"]">>
    [] v.t = "field" -> v.s \o <<" ", "|", "-", ">", " ">> \o Render(v.kids[1])
    [] v.t = "function" ->
         <<"(">> \o join(<<" ", "@", "@", " ">>, RenderAll(v.kids)) \o <<")">>
    [] v.t = "pair" ->
         Render(v.kids[1]) \o <<" ", ":", ">", " ">> \o Render(v.kids[2])

\* The interior of a delimited list of literals.
ListTexts ==
  {join(<<",", " ">>, RenderAll(es)) : es \in SeqsOver(Inner, 0, MaxElems)}

\* The same with a blank before each comma and at both ends.
PaddedListTexts ==
  {<<" ">> \o join(<<" ", ",">>, RenderAll(es)) \o <<" ">> :
     es \in SeqsOver(Inner, 0, MaxElems)}

\* The marker for text that was not written from a literal.
NoLiteral == [t |-> "text", n |-> 0, s |-> <<>>, kids |-> <<>>]

\* State 1: <Init line 3>
LineStateInit ==
  <<"S", "t", "a", "t", "e", " ", "1", ":", " ", "<", "I", "n", "i", "t",
    " ", "l", "i", "n", "e", " ", "3", ">", "\n">>

\* State 2: <Next line 7>
LineStateNext ==
  <<"S", "t", "a", "t", "e", " ", "2", ":", " ", "<", "N", "e", "x", "t",
    " ", "l", "i", "n", "e", " ", "7", ">", "\n">>

\* State 1:
LineStatePlain ==
  <<"S", "t", "a", "t", "e", " ", "1", ":", "\n">>

\* State 3: Error: The behavior up to this point is:
LineStateMarker ==
  <<"S", "t", "a", "t", "e", " ", "3", ":", " ", "E", "r", "r", "o", "r",
    ":", " ", "T", "h", "e", " ", "b", "e", "h", "a", "v", "i", "o", "r",
    " ", "u", "p", " ", "t", "o", " ", "t", "h", "i", "s", " ", "p", "o",
    "i", "n", "t", " ", "i", "s", ":", "\n">>

\* /\ x = 1
LineAssignInt ==
  <<"/", "\\", " ", "x", " ", "=", " ", "1", "\n">>

\* /\ x = {1, 2}
LineAssignSet ==
  <<"/", "\\", " ", "x", " ", "=", " ", "{", "1", ",", " ", "2", "}", "\n">>

\* /\ f = (1 :> 2 @@ "1" :> 3)
LineAssignFunction ==
  <<"/", "\\", " ", "f", " ", "=", " ", "(", "1", " ", ":", ">", " ", "2",
    " ", "@", "@", " ", "\"", "1", "\"", " ", ":", ">", " ", "3", ")", "\n">>

\* /\ f = ({1} :> 2)
LineAssignSetKey ==
  <<"/", "\\", " ", "f", " ", "=", " ", "(", "{", "1", "}", " ", ":", ">",
    " ", "2", ")", "\n">>

\* /\ m = "Error: The behavior up to this point is:"
LineAssignMarker ==
  <<"/", "\\", " ", "m", " ", "=", " ", "\"", "E", "r", "r", "o", "r", ":",
    " ", "T", "h", "e", " ", "b", "e", "h", "a", "v", "i", "o", "r", " ",
    "u", "p", " ", "t", "o", " ", "t", "h", "i", "s", " ", "p", "o", "i",
    "n", "t", " ", "i", "s", ":", "\"", "\n">>

\* /\ m = "Invariant Bad is violated"
LineAssignAnnouncement ==
  <<"/", "\\", " ", "m", " ", "=", " ", "\"", "I", "n", "v", "a", "r", "i", "a", "n", "t", " ", "B", "a", "d", " ", "i", "s", " ", "v", "i", "o", "l", "a", "t", "e", "d", "\"", "\n">>

\* Error: The behavior up to this point is:
LineTraceStart ==
  <<"E", "r", "r", "o", "r", ":", " ", "T", "h", "e", " ", "b", "e", "h",
    "a", "v", "i", "o", "r", " ", "u", "p", " ", "t", "o", " ", "t", "h",
    "i", "s", " ", "p", "o", "i", "n", "t", " ", "i", "s", ":", "\n">>

\* Error: Invariant TypeOK is violated.
LineInvariant ==
  <<"E", "r", "r", "o", "r", ":", " ", "I", "n", "v", "a", "r", "i", "a",
    "n", "t", " ", "T", "y", "p", "e", "O", "K", " ", "i", "s", " ", "v",
    "i", "o", "l", "a", "t", "e", "d", ".", "\n">>

\* Error: Property Live is violated.
LineProperty ==
  <<"E", "r", "r", "o", "r", ":", " ", "P", "r", "o", "p", "e", "r", "t",
    "y", " ", "L", "i", "v", "e", " ", "i", "s", " ", "v", "i", "o", "l",
    "a", "t", "e", "d", ".", "\n">>

\*   @@ 2 :> 3)
LineContinuation ==
  <<" ", " ", "@", "@", " ", "2", " ", ":", ">", " ", "3", ")", "\n">>

\* /\ x == 1
LineAssignMalformed ==
  <<"/", "\\", " ", "x", " ", "=", "=", " ", "1", "\n">>

\* an empty line
LineBlank == <<"\n">>

\* The lines an input file is made of.
LineSet ==
  {LineStateInit, LineStateNext, LineStatePlain, LineStateMarker,
   LineAssignInt, LineAssignSet, LineAssignFunction, LineAssignSetKey,
   LineAssignMarker, LineAssignAnnouncement, LineTraceStart, LineInvariant,
   LineProperty, LineContinuation, LineAssignMalformed, LineBlank}

\* --spec's default
SpecName == <<"U", "n", "k", "n", "o", "w", "n">>

NoTraceMessage ==
  <<"N", "o", " ", "c", "o", "u", "n", "t", "e", "r", "e", "x", "a", "m", "p", "l",
    "e", " ", "t", "r", "a", "c", "e", " ", "f", "o", "u", "n", "d", " ", "i", "n",
    " ", "i", "n", "p", "u", "t">>

\* What the interpreter prints for an exception nobody caught.
Traceback == <<"T", "r", "a", "c", "e", "b", "a", "c", "k">>

(***************************************************************************)
(* State.                                                                  *)
(***************************************************************************)
VARIABLES
  \* a call of split_tla_list, and of it again on its re-joined result
  split_input, split_output, split_again, split_pc,
  \* a call of parse_tla_value
  literal, value_input, value_output, value_pc,
  \* main: the lines read so far, the locals of parse_tlc_output, its
  \* result and what the process leaves behind
  lines, states, invariant_violated, property_violated, current_state_num,
  current_action, current_vars, in_trace, pc, trace, document, stderr,
  exit_status,
  \* what trace_to_rust_test makes of the document
  test_module,
  \* a call of model_based_testing's generate_test_module: its arguments,
  \* how many sequences the loop has taken from the generator, its locals
  \* and its result
  mbt_model, mbt_depth, mbt_max_tests, mbt_position, mbt_tests, mbt_test_num,
  mbt_rust_code, mbt_pc

splitVars == <<split_input, split_output, split_again, split_pc>>

valueVars == <<literal, value_input, value_output, value_pc>>

builderVars ==
  <<lines, states, invariant_violated, property_violated, current_state_num,
    current_action, current_vars, in_trace>>

mainVars == <<pc, trace, document, stderr, exit_status, test_module>>

mbtVars ==
  <<mbt_model, mbt_depth, mbt_max_tests, mbt_position, mbt_tests, mbt_test_num,
    mbt_rust_code, mbt_pc>>

vars == <<splitVars, valueVars, builderVars, mainVars, mbtVars>>

SplitIdle ==
  /\ split_input = <<>>
  /\ split_output = <<>>
  /\ split_again = <<>>
  /\ split_pc = "idle"

ValueIdle ==
  /\ literal = NoLiteral
  /\ value_input = <<>>
  /\ value_output = PyNone
  /\ value_pc = "idle"

MainIdle ==
  /\ lines = <<>>
  /\ states = <<>>
  /\ invariant_violated = None
  /\ property_violated = None
  /\ current_state_num = None
  /\ current_action = None
  /\ current_vars = <<>>
  /\ in_trace = FALSE
  /\ trace = None
  /\ document = None
  /\ stderr = <<>>
  /\ exit_status = None
  /\ test_module = [exc |-> "not run", text |-> <<>>]

MbtIdle ==
  /\ mbt_model = <<>>
  /\ mbt_depth = 0
  /\ mbt_max_tests = 0
  /\ mbt_position = 0
  /\ mbt_tests = <<>>
  /\ mbt_test_num = 0
  /\ mbt_rust_code = <<>>
  /\ mbt_pc = "idle"

(***************************************************************************)
(* main: one action per line of the loop of parse_tlc_output, one for its  *)
(* return and one for what main does with the result.                      *)
(***************************************************************************)
Init ==
  /\ MainIdle
  /\ pc = "reading"
  /\ SplitIdle
  /\ ValueIdle
  /\ MbtIdle

\* states.insert(0, state) in the place of states.append(state)
seal_in_front(sealed, state) == <<state>> \o sealed

\* states.append(state) (lines 204-208 and 233-237)
seal(sealed, state) == Append(sealed, state)

\* A continuation line taken as the value of the variable assigned last.
take_continuation(variables, line) ==
  [i \in 1..Len(variables) |->
     IF i = Len(variables) THEN Field(variables[i].s, PyStr(line)) ELSE variables[i]]

\* What a continuation line does to the open state's variables: "pass"
\* (lines 227-229).
skip_continuation(variables, line) == variables

\* The state the open state is sealed as.
open_state == TraceState(current_state_num[1], current_action, current_vars)

\* One iteration of "for line in lines" (lines 179-229).
ReadLine(raw) ==
  LET line == rstrip(raw)
      inv == invariant_match(line)
      prop == property_match(line)
      header == state_match(line)
      assign == IF in_trace /\ startswith(line, <<"/", "\\">>)
                THEN var_match(line) ELSE None
      parsed == parse_tla_value(assign[1][2])
      is_marker == contains(line, TraceStart)
      raises == ~is_marker /\ header = None /\ assign # None /\ parsed = Raised
  IN  /\ pc = "reading"
      /\ Len(lines) < MaxLines
      /\ lines' = Append(lines, raw)
      /\ invariant_violated' = IF inv # None THEN inv ELSE invariant_violated
      /\ property_violated' = IF prop # None THEN prop ELSE property_violated
      /\ IF is_marker
         THEN /\ in_trace' = TRUE
              /\ UNCHANGED <<states, current_state_num, current_action, current_vars>>
         ELSE IF header # None
         THEN /\ states' = IF current_state_num # None
                           THEN seal(states, open_state)
                           ELSE states
              /\ current_state_num' = header
              /\ current_action' = action_match(line)
              /\ current_vars' = <<>>
              /\ in_trace' = TRUE
         ELSE IF assign # None /\ ~raises
         THEN /\ current_vars' = set_field(current_vars, assign[1][1], parsed)
              /\ UNCHANGED <<states, current_state_num, current_action, in_trace>>
         ELSE IF /\ ~(in_trace /\ startswith(line, <<"/", "\\">>))
                 /\ in_trace
                 /\ current_vars # <<>>
                 /\ ~startswith(line, <<"S", "t", "a", "t", "e">>)
         THEN /\ current_vars' = skip_continuation(current_vars, line)
              /\ UNCHANGED <<states, current_state_num, current_action, in_trace>>
         ELSE UNCHANGED <<states, current_state_num, current_action, current_vars,
                          in_trace>>
      \* an exception of parse_tla_value leaves parse_tlc_output and main
      /\ IF raises
         THEN /\ pc' = "done"
              /\ stderr' = Traceback
              /\ exit_status' = Some(1)
         ELSE UNCHANGED <<pc, stderr, exit_status>>
      /\ UNCHANGED <<trace, document, test_module, splitVars, valueVars, mbtVars>>

\* The end of the input: lines 231-247.
Return(spec_name) ==
  /\ pc = "reading"
  /\ states' = IF current_state_num # None THEN seal(states, open_state) ELSE states
  /\ trace' = IF states' = <<>>
              THEN None
              ELSE Some([spec_name |-> spec_name,
                         invariant_violated |-> invariant_violated,
                         property_violated |-> property_violated,
                         states |-> states'])
  /\ pc' = "returned"
  /\ UNCHANGED <<lines, invariant_violated, property_violated, current_state_num,
                 current_action, current_vars, in_trace, document, stderr,
                 exit_status, test_module, splitVars, valueVars, mbtVars>>

\* main, lines 278-283.
Exit ==
  /\ pc = "returned"
  /\ IF trace # None
     THEN /\ document' = Some(to_dict(trace[1]))
          /\ exit_status' = Some(0)
          /\ stderr' = stderr
     ELSE /\ stderr' = NoTraceMessage
          /\ exit_status' = Some(1)
          /\ document' = document
  /\ pc' = "done"
  /\ UNCHANGED <<trace, test_module, builderVars, splitVars, valueVars, mbtVars>>

(***************************************************************************)
(* trace_to_rust_test: the generator that consumes the document.  A line   *)
(* of generated text is an f-string and the texts put into its fields.     *)
(***************************************************************************)
Line(fmt, args) == [fmt |-> fmt, args |-> args]

Upper ==
  <<"A", "B", "C", "D", "E", "F", "G", "H", "I", "J", "K", "L", "M", "N", "O",
    "P", "Q", "R", "S", "T", "U", "V", "W", "X", "Y", "Z">>

Lower ==
  <<"a", "b", "c", "d", "e", "f", "g", "h", "i", "j", "k", "l", "m", "n", "o",
    "p", "q", "r", "s", "t", "u", "v", "w", "x", "y", "z">>

\* str.lower()
lower(s) ==
  [i \in 1..Len(s) |->
     IF \E k \in 1..Len(Upper) : Upper[k] = s[i]
     THEN Lower[CHOOSE k \in 1..Len(Upper) : Upper[k] = s[i]]
     ELSE s[i]]

\* str.upper()
upper(s) ==
  [i \in 1..Len(s) |->
     IF \E k \in 1..Len(Lower) : Lower[k] = s[i]
     THEN Upper[CHOOSE k \in 1..Len(Lower) : Lower[k] = s[i]]
     ELSE s[i]]

\* c.isalnum() or c == "_", character by character (line 256)
sanitize(s) == [i \in 1..Len(s) |-> IF s[i] \in WordChars THEN s[i] ELSE "_"]

\* An optional text put into an f-string: None prints as "None".
format_optional(o) == IF o = None THEN <<"N", "o", "n", "e">> ELSE o[1]

\* isinstance(value, dict) for a value of the parser
is_dict(v) == v.t \in {"set", "sequence", "record", "function"}

\* repr(value); a text is quoted with ' (the texts here hold no ' and no \).
RECURSIVE py_repr(_)
py_repr(v) ==
  LET items(vs) == join(<<",", " ">>, [i \in 1..Len(vs) |-> py_repr(vs[i])])
      fields(fs) ==
        join(<<",", " ">>,
             [i \in 1..Len(fs) |->
                <<"'">> \o fs[i].s \o <<"'", ":", " ">> \o py_repr(fs[i].kids[1])])
      pairs(ps) ==
        join(<<",", " ">>,
             [i \in 1..Len(ps) |->
                py_repr(ps[i].kids[1]) \o <<":", " ">> \o py_repr(ps[i].kids[2])])
  IN  CASE v.t = "none" -> <<"N", "o", "n", "e">>
        [] v.t = "bool" -> IF v.n = 1 THEN <<"T", "r", "u", "e">>
                           ELSE <<"F", "a", "l", "s", "e">>
        [] v.t = "int" -> int_text(v.n)
        [] v.t = "str" -> <<"'">> \o v.s \o <<"'">>
        [] v.t = "set" ->
             <<"{", "'", "t", "y", "p", "e", "'", ":", " ", "'", "s", "e", "t", "'", ",", " ", "'", "e", "l", "e", "m", "e", "n", "t", "s", "'", ":", " ", "[">> \o items(v.kids) \o <<"]", "}">>
        [] v.t = "sequence" ->
             <<"{", "'", "t", "y", "p", "e", "'", ":", " ", "'", "s", "e", "q", "u", "e", "n", "c", "e", "'", ",", " ", "'", "e", "l", "e", "m", "e", "n", "t", "s", "'", ":", " ", "[">> \o items(v.kids) \o <<"]", "}">>
        [] v.t = "record" ->
             <<"{", "'", "t", "y", "p", "e", "'", ":", " ", "'", "r", "e", "c", "o", "r", "d", "'", ",", " ", "'", "f", "i", "e", "l", "d", "s", "'", ":", " ", "{">> \o fields(v.kids) \o <<"}", "}">>
        [] v.t = "function" ->
             <<"{", "'", "t", "y", "p", "e", "'", ":", " ", "'", "f", "u", "n", "c", "t", "i", "o", "n", "'", ",", " ", "'", "m", "a", "p", "p", "i", "n", "g", "'", ":", " ", "{">> \o pairs(v.kids) \o <<"}", "}">>

\* str(value), what an f-string field shows
py_str(v) == IF v.t = "str" THEN v.s ELSE py_repr(v)

\* "    " * indent
indentation(indent) == [i \in 1..(4 * indent) |-> " "]

\* tla_to_rust_value (lines 105-155)
RECURSIVE tla_to_rust_value(_, _)
tla_to_rust_value(value, indent) ==
  LET ind == indentation(indent)
      els == join(<<",", " ">>,
                  [i \in 1..Len(value.kids) |-> tla_to_rust_value(value.kids[i], indent)])
      field_strs ==
        [i \in 1..Len(value.kids) |->
           value.kids[i].s \o <<":", " ">>
             \o tla_to_rust_value(value.kids[i].kids[1], indent + 1)]
      entries ==
        [i \in 1..Len(value.kids) |->
           <<"(">> \o tla_to_rust_value(value.kids[i].kids[1], 0) \o <<",", " ">>
             \o tla_to_rust_value(value.kids[i].kids[2], 0) \o <<")">>]
  IN  CASE value.t = "none" -> <<"N", "o", "n", "e">>
        [] value.t = "bool" -> IF value.n = 1 THEN <<"t", "r", "u", "e">>
                               ELSE <<"f", "a", "l", "s", "e">>
        [] value.t = "int" -> int_text(value.n)
        [] value.t = "str" -> <<"\"">> \o value.s \o <<"\"">>
        [] value.t = "set" ->
             IF value.kids = <<>> THEN <<"H", "a", "s", "h", "S", "e", "t", ":", ":", "n", "e", "w", "(", ")">>
             ELSE <<"H", "a", "s", "h", "S", "e", "t", ":", ":", "f", "r", "o", "m", "(", "[">> \o els \o <<"]", ")">>
        [] value.t = "sequence" ->
             IF value.kids = <<>> THEN <<"v", "e", "c", "!", "[", "]">>
             ELSE <<"v", "e", "c", "!", "[">> \o els \o <<"]">>
        [] value.t = "record" ->
             IF value.kids = <<>> THEN <<"/", "*", " ", "e", "m", "p", "t", "y", " ", "r", "e", "c", "o", "r", "d", " ", "*", "/">>
             ELSE <<"{", "\n">> \o ind \o indentation(1)
                    \o join(<<",", "\n">> \o ind \o indentation(1), field_strs)
                    \o <<"\n">> \o ind \o <<"}">>
        [] value.t = "function" ->
             IF value.kids = <<>> THEN <<"H", "a", "s", "h", "M", "a", "p", ":", ":", "n", "e", "w", "(", ")">>
             ELSE <<"H", "a", "s", "h", "M", "a", "p", ":", ":", "f", "r", "o", "m", "(", "[">> \o join(<<",", " ">>, entries) \o <<"]", ")">>
        [] OTHER -> <<"/", "*", " ", "u", "n", "k", "n", "o", "w", "n", ":", " ">> \o py_str(value) \o <<" ", "*", "/">>

\* dict.get(name, default) on a state's variables
get_variable(variables, name, default) ==
  IF \E i \in 1..Len(variables) : variables[i].s = name
  THEN variables[CHOOSE i \in 1..Len(variables) : variables[i].s = name].kids[1]
  ELSE default

\* What a call of the generator leaves: the exception that left it ("" for
\* none) and the lines of the text it returned.
Returned(text) == [exc |-> "", text |-> text]

Failed(exc) == [exc |-> exc, text |-> <<>>]

StrUnknown == <<"U", "n", "k", "n", "o", "w", "n">>

StrInit == <<"I", "n", "i", "t">>

\* generate_booking_test (lines 158-205)
generate_booking_test(tr, test_name) ==
  LET state_lines(state) ==
        LET action == state.action
            currency_val == get_variable(state.variables, <<"c", "u", "r", "r", "e", "n", "c", "y">>, PyStr(<<"U", "S", "D">>))
            currency ==
              IF currency_val.t \in {"set", "sequence"} /\ currency_val.kids # <<>>
              THEN currency_val.kids[1]
              ELSE IF ~is_dict(currency_val) THEN currency_val
              ELSE PyStr(<<"U", "S", "D">>)
        IN  IF action = Some(StrInit)
            THEN <<Line("    // Initial state", <<>>)>>
            ELSE IF action \in {Some(<<"A", "d", "d", "L", "o", "t">>), Some(<<"A", "d", "d">>)}
            THEN <<Line("    // Action: {action} (currency: {currency})",
                        <<action[1], py_str(currency)>>),
                   Line("    // TODO: Extract lot details from trace", <<>>),
                   Line("    // inventory.add_position(position);", <<>>)>>
            ELSE IF action \in {Some(<<"R", "e", "d", "u", "c", "e", "F", "I", "F", "O">>),
                                Some(<<"R", "e", "d", "u", "c", "e", "L", "I", "F", "O">>),
                                Some(<<"R", "e", "d", "u", "c", "e", "H", "I", "F", "O">>),
                                Some(<<"R", "e", "d", "u", "c", "e", "S", "T", "R", "I", "C", "T">>),
                                Some(<<"R", "e", "d", "u", "c", "e", "A", "V", "E", "R", "A", "G", "E">>)}
            THEN <<Line("    // Action: {action}", <<action[1]>>),
                   Line("    // TODO: Extract reduction details from trace", <<>>),
                   Line("    // inventory.reduce(BookingMethod::{method}, units, &spec);",
                        <<upper(drop(action[1], 6))>>)>>
            ELSE <<>>
  IN  <<Line("/// Generated from TLA+ counterexample", <<>>),
        Line("/// Invariant violated: {invariant}",
             <<format_optional(tr.invariant_violated)>>),
        Line("#[test]", <<>>),
        Line("fn {test_name}() {{", <<test_name>>),
        Line("    let mut inventory = setup_inventory();", <<>>),
        Line("", <<>>)>>
      \o concat([i \in 1..Len(tr.states) |-> state_lines(tr.states[i])])
      \o <<Line("", <<>>),
           Line("    // Verify invariant would have been violated", <<>>),
           Line("    // assert!(...);", <<>>),
           Line("}}", <<>>)>>

\* generate_validation_test (lines 208-247); '"Error" in action' raises
\* TypeError for an action that is None.
generate_validation_test(tr, test_name) ==
  LET error_lines(errors) ==
        IF errors.t = "set"
        THEN concat([k \in 1..Len(errors.kids) |->
                       IF errors.kids[k].t = "record"
                       THEN <<Line("    // Error: {code}",
                                   <<py_str(get_variable(errors.kids[k].kids,
                                                         <<"c", "o", "d", "e">>,
                                                         PyStr(<<"E", "1", "0", "0", "1">>)))>>)>>
                       ELSE <<>>])
        ELSE <<>>
      state_lines(state) ==
        LET action == state.action
        IN  IF action = Some(StrInit)
            THEN <<Line("    // Initial state", <<>>)>>
            ELSE IF action # None
                    /\ (\/ contains(action[1], <<"E", "r", "r", "o", "r">>)
                        \/ contains(action[1], <<"A", "d", "d">>))
            THEN <<Line("    // Action: {action}", <<action[1]>>)>>
                   \o (IF \E i \in 1..Len(state.variables) :
                            state.variables[i].s = <<"e", "r", "r", "o", "r", "s">>
                       THEN error_lines(get_variable(state.variables,
                                                     <<"e", "r", "r", "o", "r", "s">>, PyNone))
                       ELSE <<>>)
            ELSE <<>>
      \* the states at which line 230 applies "in" to None
      failing == {i \in 1..Len(tr.states) : tr.states[i].action = None}
  IN  IF failing # {}
      THEN Failed("TypeError")
      ELSE Returned(
             <<Line("/// Generated from TLA+ counterexample", <<>>),
               Line("/// Invariant violated: {invariant}",
                    <<format_optional(tr.invariant_violated)>>),
               Line("#[test]", <<>>),
               Line("fn {test_name}() {{", <<test_name>>),
               Line("    let mut validator = Validator::new();", <<>>),
               Line("", <<>>)>>
             \o concat([i \in 1..Len(tr.states) |-> state_lines(tr.states[i])])
             \o <<Line("", <<>>),
                  Line("    // Verify expected errors", <<>>),
                  Line("    // let errors = validator.validate(&ledger);", <<>>),
                  Line("    // assert!(...);", <<>>),
                  Line("}}", <<>>)>>)

\* generate_generic_test (lines 267-306)
generate_generic_test(tr, test_name) ==
  LET state_lines(state) ==
        <<Line("", <<>>),
          Line("    // State {state_num}: {action}",
               <<int_text(state.state_num), format_optional(state.action)>>)>>
        \o [j \in 1..Len(state.variables) |->
              Line("    // {var_name} = {rust_value}",
                   <<state.variables[j].s,
                     tla_to_rust_value(state.variables[j].kids[1], 1)>>)]
  IN  <<Line("/// Generated from TLA+ counterexample", <<>>),
        Line("/// Spec: {trace.get('spec_name', 'Unknown')}", <<tr.spec_name>>)>>
      \o (IF tr.invariant_violated # None /\ tr.invariant_violated # Some(<<>>)
          THEN <<Line("/// Invariant violated: {invariant}", <<tr.invariant_violated[1]>>)>>
          ELSE <<>>)
      \o (IF tr.property_violated # None /\ tr.property_violated # Some(<<>>)
          THEN <<Line("/// Property violated: {property_violated}",
                      <<tr.property_violated[1]>>)>>
          ELSE <<>>)
      \o <<Line("#[test]", <<>>),
           Line("fn {test_name}() {{", <<test_name>>)>>
      \o concat([i \in 1..Len(tr.states) |-> state_lines(tr.states[i])])
      \o <<Line("", <<>>),
           Line("    // TODO: Implement test based on trace", <<>>),
           Line("    todo!(\"Implement test from TLA+ trace\");", <<>>),
           Line("}}", <<>>)>>

\* generate_test_from_trace (lines 250-264): invariant.lower() meets None
\* when the document's invariant_violated is null.
generate_test_from_trace(tr, test_num) ==
  IF tr.invariant_violated = None
  THEN Failed("AttributeError")
  ELSE LET test_name ==
             sanitize(<<"t", "l", "a", "_", "t", "r", "a", "c", "e", "_">> \o lower(tr.spec_name) \o <<"_">>
                        \o lower(tr.invariant_violated[1]) \o <<"_">>
                        \o int_text(test_num))
       IN  IF tr.spec_name = <<"B", "o", "o", "k", "i", "n", "g", "M", "e", "t", "h", "o", "d", "s">>
           THEN Returned(generate_booking_test(tr, test_name))
           ELSE IF tr.spec_name = <<"V", "a", "l", "i", "d", "a", "t", "i", "o", "n", "E", "r", "r", "o", "r", "s">>
           THEN generate_validation_test(tr, test_name)
           ELSE Returned(generate_generic_test(tr, test_name))

\* SPEC_TEMPLATES (lines 20-102), each text stripped as lines 337 and 342 do
SPEC_TEMPLATES(spec_name) ==
  CASE spec_name = <<"B", "o", "o", "k", "i", "n", "g", "M", "e", "t", "h", "o", "d", "s">> ->
         [imports |-> "use rust_decimal::Decimal;\nuse rust_decimal_macros::dec;\nuse rustledger_core::{Amount, Inventory, Position, Cost, CostSpec};\nuse rustledger_core::inventory::BookingMethod;\nuse chrono::NaiveDate;",
          setup |-> "fn setup_inventory() -> Inventory {\n    Inventory::new()\n}\n\nfn make_date(days: i32) -> NaiveDate {\n    NaiveDate::from_ymd_opt(2024, 1, 1).unwrap() + chrono::Duration::days(days as i64)\n}\n\nfn make_cost(units: i64, currency: &str, date: i32) -> Cost {\n    Cost {\n        amount: Some(Amount::new(Decimal::new(units, 0), currency.into())),\n        date: Some(make_date(date)),\n        label: None,\n    }\n}"]
    [] spec_name = <<"V", "a", "l", "i", "d", "a", "t", "i", "o", "n", "E", "r", "r", "o", "r", "s">> ->
         [imports |-> "use rustledger_validate::{Validator, ValidationError};\nuse rustledger_core::*;\nuse chrono::NaiveDate;",
          setup |-> "fn make_date(days: i32) -> NaiveDate {\n    NaiveDate::from_ymd_opt(2024, 1, 1).unwrap() + chrono::Duration::days(days as i64)\n}"]
    [] spec_name = <<"I", "n", "v", "e", "n", "t", "o", "r", "y">> ->
         [imports |-> "use rust_decimal::Decimal;\nuse rust_decimal_macros::dec;\nuse rustledger_core::{Amount, Inventory, Position, Cost, CostSpec};\nuse chrono::NaiveDate;",
          setup |-> "fn setup_inventory() -> Inventory {\n    Inventory::new()\n}\n\nfn make_date(days: i32) -> NaiveDate {\n    NaiveDate::from_ymd_opt(2024, 1, 1).unwrap() + chrono::Duration::days(days as i64)\n}"]
    [] spec_name = <<"A", "c", "c", "o", "u", "n", "t", "L", "i", "f", "e", "c", "y", "c", "l", "e">> ->
         [imports |-> "use rustledger_validate::{Validator, ValidationError};\nuse rustledger_core::*;\nuse chrono::NaiveDate;\nuse std::collections::HashMap;",
          setup |-> "fn make_date(days: i32) -> NaiveDate {\n    NaiveDate::from_ymd_opt(2024, 1, 1).unwrap() + chrono::Duration::days(days as i64)\n}"]
    [] spec_name = <<"P", "r", "i", "c", "e", "D", "a", "t", "a", "b", "a", "s", "e">> ->
         [imports |-> "use rust_decimal::Decimal;\nuse rust_decimal_macros::dec;\nuse rustledger_core::PriceMap;\nuse chrono::NaiveDate;",
          setup |-> "fn make_date(days: i32) -> NaiveDate {\n    NaiveDate::from_ymd_opt(2024, 1, 1).unwrap() + chrono::Duration::days(days as i64)\n}"]
    [] OTHER -> [imports |-> "", setup |-> ""]

\* spec_name in SPEC_TEMPLATES
in_SPEC_TEMPLATES(spec_name) == SPEC_TEMPLATES(spec_name).imports # ""

\* generate_test_module (lines 309-351), for traces of one spec name (a set
\* of one name has one iteration order).
generate_test_module(traces) ==
  LET spec_name == traces[1].spec_name
      tests == [i \in 1..Len(traces) |-> generate_test_from_trace(traces[i], i)]
      failing == {i \in 1..Len(traces) : tests[i].exc # ""}
  IN  IF failing # {}
      THEN Failed(tests[Min(failing)].exc)
      ELSE Returned(
             <<Line("//! Auto-generated tests from TLA+ counterexample traces", <<>>),
               Line("//! ", <<>>),
               Line("//! Generated by: scripts/trace_to_rust_test.py", <<>>),
               Line("//! ", <<>>),
               Line("//! DO NOT EDIT MANUALLY", <<>>),
               Line("", <<>>),
               Line("#![allow(dead_code)]", <<>>),
               Line("#![allow(unused_imports)]", <<>>),
               Line("#![allow(unused_variables)]", <<>>),
               Line("", <<>>)>>
             \o (IF in_SPEC_TEMPLATES(spec_name)
                 THEN <<Line(SPEC_TEMPLATES(spec_name).imports, <<>>)>>
                 ELSE <<>>)
             \o <<Line("", <<>>)>>
             \o (IF in_SPEC_TEMPLATES(spec_name)
                 THEN <<Line(SPEC_TEMPLATES(spec_name).setup, <<>>), Line("", <<>>)>>
                 ELSE <<>>)
             \o concat([i \in 1..Len(traces) |-> <<Line("", <<>>)>> \o tests[i].text]))

\* The names given to --spec.
SpecNames == {SpecName, <<"V", "a", "l", "i", "d", "a", "t", "i", "o", "n", "E", "r", "r", "o", "r", "s">>, <<"B", "o", "o", "k", "i", "n", "g", "M", "e", "t", "h", "o", "d", "s">>}

\* trace_to_rust_test's main (lines 377-385) on the document of this run.
Generate ==
  /\ pc = "done"
  /\ document # None
  /\ test_module' = generate_test_module(<<trace[1]>>)
  /\ pc' = "generated"
  /\ UNCHANGED <<trace, document, stderr, exit_status, builderVars, splitVars,
                 valueVars, mbtVars>>

Next ==
  \/ \E raw \in LineSet : ReadLine(raw)
  \/ \E spec_name \in SpecNames : Return(spec_name)
  \/ Exit
  \/ Generate

Spec == Init /\ [][Next]_vars

(***************************************************************************)
(* split_tla_list applied to an input, then to its own result re-joined    *)
(* with ", ".                                                              *)
(***************************************************************************)
SplitInputs == TokenTexts \cup ListTexts \cup PaddedListTexts

InitSplit ==
  /\ split_input \in SplitInputs
  /\ split_output = <<>>
  /\ split_again = <<>>
  /\ split_pc = "input"
  /\ MainIdle
  /\ pc = "idle"
  /\ ValueIdle
  /\ MbtIdle

Split ==
  /\ split_pc = "input"
  /\ split_output' = split_tla_list(split_input)
  /\ split_pc' = "split"
  /\ UNCHANGED <<split_input, split_again, valueVars, builderVars, mainVars, mbtVars>>

Resplit ==
  /\ split_pc = "split"
  /\ split_again' = split_tla_list(join(<<",", " ">>, split_output))
  /\ split_pc' = "resplit"
  /\ UNCHANGED <<split_input, split_output, valueVars, builderVars, mainVars, mbtVars>>

NextSplit == Split \/ Resplit

SpecSplit == InitSplit /\ [][NextSplit]_vars

(***************************************************************************)
(* parse_tla_value applied to an input.                                    *)
(***************************************************************************)
InitValue ==
  /\ \/ /\ literal \in Literals
        /\ value_input = Render(literal)
     \/ /\ literal = NoLiteral
        /\ value_input \in TokenTexts
  /\ value_output = PyNone
  /\ value_pc = "input"
  /\ MainIdle
  /\ pc = "idle"
  /\ SplitIdle
  /\ MbtIdle

Parse ==
  /\ value_pc = "input"
  /\ value_output' = parse_tla_value(value_input)
  /\ value_pc' = "parsed"
  /\ UNCHANGED <<literal, value_input, splitVars, builderVars, mainVars, mbtVars>>

NextValue == Parse

SpecValue == InitValue /\ [][NextValue]_vars

(***************************************************************************)
(* model_based_testing: the models, the generator of action sequences and  *)
(* the module of tests made from them.                                     *)
(***************************************************************************)
StateVariable(name, tla_type, rust_type, initial_value) ==
  [name |-> name, tla_type |-> tla_type, rust_type |-> rust_type,
   initial_value |-> initial_value]

Parameter(name, tla_type, rust_type) ==
  [name |-> name, tla_type |-> tla_type, rust_type |-> rust_type]

Action(name, parameters, precondition, effect, rust_implementation) ==
  [name |-> name, parameters |-> parameters, precondition |-> precondition,
   effect |-> effect, rust_implementation |-> rust_implementation]

StateModel(name, variables, actions, invariants) ==
  [name |-> name, variables |-> variables, actions |-> actions,
   invariants |-> invariants]

\* lines 52-126
BOOKING_MODEL ==
  StateModel(
    <<"B", "o", "o", "k", "i", "n", "g", "M", "e", "t", "h", "o", "d", "s">>,
    <<StateVariable("lots", "Set(Lot)", "Vec<Lot>", "vec![]"),
     StateVariable("method", "BookingMethod", "BookingMethod", "BookingMethod::FIFO"),
     StateVariable("total_reduced", "Nat", "u64", "0")>>,
    <<Action(<<"A", "d", "d", "L", "o", "t">>,
            <<Parameter(<<"u", "n", "i", "t", "s">>, <<"1", ".", ".", "M", "a", "x", "U", "n", "i", "t", "s">>, "u32"),
                      Parameter(<<"c", "o", "s", "t">>, <<"1", ".", ".", "M", "a", "x", "C", "o", "s", "t">>, "u32"),
                      Parameter(<<"d", "a", "t", "e">>, <<"1", ".", ".", "M", "a", "x", "D", "a", "t", "e">>, "u32")>>,
            "lots.len() < MAX_LOTS",
            "lots.push(Lot { units, cost, date })",
            "\n    let lot = Lot { units: {units}, cost_per_unit: dec!({cost}), date: make_date({date}) };\n    inventory.add_position(lot.into());\n"),
     Action(<<"R", "e", "d", "u", "c", "e", "F", "I", "F", "O">>,
            <<Parameter(<<"u", "n", "i", "t", "s">>, <<"1", ".", ".", "M", "a", "x", "U", "n", "i", "t", "s">>, "u32")>>,
            "method == FIFO && total_units() >= units",
            "reduce oldest lot by units",
            "\n    inventory.reduce(BookingMethod::FIFO, dec!({units}), &CostSpec::default()).unwrap();\n"),
     Action(<<"R", "e", "d", "u", "c", "e", "L", "I", "F", "O">>,
            <<Parameter(<<"u", "n", "i", "t", "s">>, <<"1", ".", ".", "M", "a", "x", "U", "n", "i", "t", "s">>, "u32")>>,
            "method == LIFO && total_units() >= units",
            "reduce newest lot by units",
            "\n    inventory.reduce(BookingMethod::LIFO, dec!({units}), &CostSpec::default()).unwrap();\n"),
     Action(<<"R", "e", "d", "u", "c", "e", "H", "I", "F", "O">>,
            <<Parameter(<<"u", "n", "i", "t", "s">>, <<"1", ".", ".", "M", "a", "x", "U", "n", "i", "t", "s">>, "u32")>>,
            "method == HIFO && total_units() >= units",
            "reduce highest cost lot by units",
            "\n    inventory.reduce(BookingMethod::HIFO, dec!({units}), &CostSpec::default()).unwrap();\n"),
     Action(<<"S", "e", "t", "M", "e", "t", "h", "o", "d">>,
            <<Parameter(<<"m", "e", "t", "h", "o", "d">>, <<"B", "o", "o", "k", "i", "n", "g", "M", "e", "t", "h", "o", "d">>, "BookingMethod")>>,
            "true",
            "method = new_method",
            "\n    // Method is set per-reduction in Rust, not stored in inventory\n")>>,
    <<"NonNegativeUnits: total_units() >= 0",
     "ValidLots: all lots have positive units",
     "FIFOProperty: FIFO selects oldest",
     "LIFOProperty: LIFO selects newest",
     "HIFOProperty: HIFO selects highest cost">>)

\* lines 128-167
INVENTORY_MODEL ==
  StateModel(
    <<"I", "n", "v", "e", "n", "t", "o", "r", "y">>,
    <<StateVariable("inventory", "Set(Position)", "Inventory", "Inventory::new()"),
     StateVariable("operations", "Seq(Op)", "Vec<Op>", "vec![]")>>,
    <<Action(<<"A", "u", "g", "m", "e", "n", "t">>,
            <<Parameter(<<"u", "n", "i", "t", "s">>, <<"1", ".", ".", "M", "a", "x", "U", "n", "i", "t", "s">>, "u32"),
                      Parameter(<<"c", "u", "r", "r", "e", "n", "c", "y">>, <<"C", "u", "r", "r", "e", "n", "c", "i", "e", "s">>, "&str"),
                      Parameter(<<"c", "o", "s", "t">>, <<"1", ".", ".", "M", "a", "x", "C", "o", "s", "t">>, "u32")>>,
            "units > 0",
            "add position to inventory",
            "\n    let amount = Amount::new(dec!({units}), \"{currency}\".into());\n    let cost = Cost {{ amount: Some(Amount::new(dec!({cost}), \"USD\".into())), date: Some(make_date(1)), label: None }};\n    inventory.add_position(Position {{ units: amount, cost: Some(cost) }});\n"),
     Action(<<"R", "e", "d", "u", "c", "e", "S", "t", "r", "i", "c", "t">>,
            <<Parameter(<<"u", "n", "i", "t", "s">>, <<"1", ".", ".", "M", "a", "x", "U", "n", "i", "t", "s">>, "u32"),
                      Parameter(<<"c", "u", "r", "r", "e", "n", "c", "y">>, <<"C", "u", "r", "r", "e", "n", "c", "i", "e", "s">>, "&str")>>,
            "matching positions exist with sufficient units",
            "reduce matching position",
            "\n    inventory.reduce(BookingMethod::STRICT, dec!({units}), &CostSpec::default()).unwrap();\n")>>,
    <<"NonNegativeUnits: units never negative (except NONE)",
     "ValidPositions: no zero-unit positions">>)

\* A model of one action of BOOKING_MODEL, and one of two.
SetMethodModel ==
  StateModel(<<"S", "e", "t", "M", "e", "t", "h", "o", "d">>, BOOKING_MODEL.variables,
             <<BOOKING_MODEL.actions[5]>>, BOOKING_MODEL.invariants)

ReduceModel ==
  StateModel(<<"R", "e", "d", "u", "c", "e">>, BOOKING_MODEL.variables,
             <<BOOKING_MODEL.actions[2], BOOKING_MODEL.actions[3]>>,
             BOOKING_MODEL.invariants)

\* The models given to generate_test_module.
Models == {BOOKING_MODEL, INVENTORY_MODEL, SetMethodModel, ReduceModel}

MaxDepth == 2

MaxTests == 4

\* itertools.product(*lists): every choice of one item per list, the last
\* list running fastest.
RECURSIVE product(_)
product(lists) ==
  IF lists = <<>> THEN <<<<>>>>
  ELSE LET rest == product(Tail(lists))
       IN  concat([i \in 1..Len(Head(lists)) |->
                     [j \in 1..Len(rest) |-> <<Head(lists)[i]>> \o rest[j]]])

\* re.match(r"(\d+)\.\.(\w+)", tla_type): int(group 1), or None.
range_match(tla_type) ==
  LET k == run_length(tla_type, Digits)
      rest == drop(tla_type, k)
  IN  IF /\ k >= 1
         /\ startswith(rest, <<".", ".">>)
         /\ run_length(drop(rest, 2), WordChars) >= 1
      THEN Some(int(take(tla_type, k)))
      ELSE None

\* The values generate_params gives one parameter (lines 180-194), each
\* with the parameter's name.
param_values(parameter) ==
  LET name == parameter.name
      tla_type == parameter.tla_type
      start == range_match(tla_type)
  IN  IF contains(tla_type, <<"1", ".", ".">>)
      THEN IF start # None
           THEN <<<<name, PyInt(start[1])>>, <<name, PyInt(start[1] + 1)>>,
                  <<name, PyInt(start[1] + 2)>>>>
           ELSE <<<<name, PyInt(1)>>>>
      ELSE IF tla_type = <<"B", "o", "o", "k", "i", "n", "g", "M", "e", "t", "h", "o", "d">>
      THEN <<<<name, PyStr(<<"F", "I", "F", "O">>)>>,
             <<name, PyStr(<<"L", "I", "F", "O">>)>>,
             <<name, PyStr(<<"H", "I", "F", "O">>)>>>>
      ELSE IF tla_type = <<"C", "u", "r", "r", "e", "n", "c", "i", "e", "s">>
      THEN <<<<name, PyStr(<<"U", "S", "D">>)>>, <<name, PyStr(<<"A", "A", "P", "L">>)>>>>
      ELSE <<<<name, PyStr(<<"d", "e", "f", "a", "u", "l", "t">>)>>>>

\* generate_params (lines 177-197): the dicts it yields, in order; a dict
\* is the sequence of its (name, value) items (the names of one action's
\* parameters differ).
generate_params(action) ==
  product([i \in 1..Len(action.parameters) |-> param_values(action.parameters[i])])

\* The (action, params) pairs of lines 208-210, in order.
steps_of(model) ==
  concat([a \in 1..Len(model.actions) |->
            LET params == generate_params(model.actions[a])
            IN  [p \in 1..Len(params) |-> <<model.actions[a], params[p]>>]])

\* generate_sequences (lines 199-210): what it yields, in order.
RECURSIVE generate_sequences(_, _)
generate_sequences(model, current_depth) ==
  IF current_depth = 0 THEN <<<<>>>>
  ELSE LET shorter == generate_sequences(model, current_depth - 1)
           steps == steps_of(model)
       IN  concat([s \in 1..Len(shorter) |->
                     <<shorter[s]>>
                       \o [k \in 1..Len(steps) |-> Append(shorter[s], steps[k])]])

\* generate_test_sequences (lines 175-212)
generate_test_sequences(model, depth) == generate_sequences(model, depth)

\* impl after the replace calls of lines 230-231 and the strip of line 233:
\* the template and, in order, what was put for which placeholder.
Replaced(template, params) ==
  [template |-> template,
   substitutions |->
     [i \in 1..Len(params) |->
        <<<<"{">> \o params[i][1] \o <<"}">>, py_str(params[i][2])>>]]

\* The two lines generate_rust_test (lines 227-233) writes per step.
rust_step(action, params) ==
  [comment |->
     Line("    // Action: {action.name}({params})",
          <<action.name,
            join(<<",", " ">>,
                 [i \in 1..Len(params) |->
                    params[i][1] \o <<"=">> \o py_str(params[i][2])])>>),
   impl |-> Replaced(action.rust_implementation, params)]

rust_steps(sequence) ==
  [i \in 1..Len(sequence) |-> rust_step(sequence[i][1], sequence[i][2])]

\* generate_rust_test (lines 215-250): the parts of the text it returns.
generate_rust_test(model, sequence, test_num) ==
  LET first == SubSeq(sequence, 1, Min({3, Len(sequence)}))
      action_names ==
        join(<<"_">>, [i \in 1..Len(first) |-> lower(first[i][1].name)])
          \o (IF Len(sequence) > 3
              THEN <<"_", "p", "l", "u", "s">> \o int_text(Len(sequence) - 3)
              ELSE <<>>)
  IN  [test_num |-> test_num,
       sequence_names |->
         join(<<" ", "-", ">", " ">>, [i \in 1..Len(sequence) |-> sequence[i][1].name]),
       test_name |->
         <<"m", "b", "t", "_">> \o lower(model.name) \o <<"_">> \o action_names
           \o <<"_">> \o int_text(test_num),
       setup |->
         [i \in 1..Len(model.variables) |->
            Line("    let mut {v.name} = {v.initial_value};",
                 <<model.variables[i].name, model.variables[i].initial_value>>)],
       steps |-> rust_steps(sequence),
       invariant_checks |->
         [i \in 1..Len(model.invariants) |->
            Line("    // Check: {inv}", <<model.invariants[i]>>)]]

\* The module generate_test_module returns (lines 269-312): the fields of
\* its header and the tests.
RustModule(name, depth, tests) ==
  [name |-> name, depth |-> depth, count |-> Len(tests), tests |-> tests]

NoModule == RustModule(<<>>, 0, <<>>)

(***************************************************************************)
(* generate_test_module of model_based_testing: the loop of lines 258-267, *)
(* one action per sequence taken from the generator, and the return.       *)
(***************************************************************************)
InitMbt ==
  /\ mbt_model \in Models
  /\ mbt_depth \in 0..MaxDepth
  /\ mbt_max_tests \in 0..MaxTests
  /\ mbt_position = 0
  /\ mbt_tests = <<>>
  /\ mbt_test_num = 0
  /\ mbt_rust_code = NoModule
  /\ mbt_pc = "loop"
  /\ SplitIdle
  /\ ValueIdle
  /\ MainIdle
  /\ pc = "idle"

\* One iteration of "for sequence in generate_test_sequences(model, depth)".
NextSequence ==
  LET sequences == generate_test_sequences(mbt_model, mbt_depth)
      sequence == sequences[mbt_position + 1]
  IN  /\ mbt_pc = "loop"
      /\ mbt_position < Len(sequences)
      /\ mbt_position' = mbt_position + 1
      /\ IF sequence = <<>>
         THEN UNCHANGED <<mbt_tests, mbt_test_num, mbt_pc>>
         ELSE /\ mbt_tests' = Append(mbt_tests,
                                     generate_rust_test(mbt_model, sequence, mbt_test_num))
              /\ mbt_test_num' = mbt_test_num + 1
              /\ mbt_pc' = IF mbt_test_num' >= mbt_max_tests THEN "format" ELSE "loop"
      /\ UNCHANGED <<mbt_model, mbt_depth, mbt_max_tests, mbt_rust_code, splitVars,
                     valueVars, builderVars, mainVars>>

\* After the loop (the generator is at its end, or line 267 broke out).
ReturnModule ==
  /\ \/ mbt_pc = "format"
     \/ /\ mbt_pc = "loop"
        /\ mbt_position = Len(generate_test_sequences(mbt_model, mbt_depth))
  /\ mbt_rust_code' = RustModule(mbt_model.name, mbt_depth, mbt_tests)
  /\ mbt_pc' = "done"
  /\ UNCHANGED <<mbt_model, mbt_depth, mbt_max_tests, mbt_position, mbt_tests,
                 mbt_test_num, splitVars, valueVars, builderVars, mainVars>>

NextMbt ==
  \/ NextSequence
  \/ ReturnModule

SpecMbt == InitMbt /\ [][NextMbt]_vars

(***************************************************************************)
(* The value syntax as the claims read it: <<  and >> are one delimiter    *)
(* each, and a lone < or > (as in |-> and :>) is no delimiter.             *)
(***************************************************************************)
\* A quotation mark that no backslash precedes.
UnescapedQuote(s, i) == s[i] = "\"" /\ (i = 1 \/ s[i - 1] # "\\")

\* Position i lies inside a quoted string (the closing mark included).
InsideString(s, i) ==
  Cardinality({j \in 1..(i - 1) : UnescapedQuote(s, j)}) % 2 = 1

\* A two-character delimiter cc starts at position i: the run of c's that
\* i lies in is read in pairs from its left end.
PairStarts(s, i, c) ==
  LET others == {k \in 1..(i - 1) : s[k] # c}
      before == (i - 1) - (IF others = {} THEN 0 ELSE Max(others))
  IN  /\ i < Len(s)
      /\ s[i] = c
      /\ s[i + 1] = c
      /\ before % 2 = 0

\* The delimiters open before position i.
NestingDepth(s, i) ==
  LET outside == {j \in 1..(i - 1) : ~UnescapedQuote(s, j) /\ ~InsideString(s, j)}
  IN  Cardinality({j \in outside : s[j] \in {"{", "[", "("} \/ PairStarts(s, j, "<")})
        - Cardinality({j \in outside :
                         s[j] \in {"}", "]", ")"} \/ PairStarts(s, j, ">")})

\* The commas of s outside every string and at nesting depth zero.
TopLevelCommas(s) ==
  {i \in 1..Len(s) : s[i] = "," /\ ~InsideString(s, i) /\ NestingDepth(s, i) = 0}

\* Every closer closes an open delimiter, and nothing is left open.
BracketBalanced(s) ==
  /\ \A i \in 1..(Len(s) + 1) : NestingDepth(s, i) >= 0
  /\ NestingDepth(s, Len(s) + 1) = 0
  /\ ~InsideString(s, Len(s) + 1)

\* No bracket character lies inside a string.
NoDelimiterInString(s) ==
  \A i \in 1..Len(s) :
    InsideString(s, i) => s[i] \notin {"{", "}", "[", "]", "(", ")", "<", ">"}

(***************************************************************************)
(* Claims about parse_tla_value (under SpecValue).                         *)
(***************************************************************************)
\* C1: parse_tla_value is total: whatever the input text (function literals
\* with composite keys and malformed text included), the call returns a
\* value and raises nothing.
C1_ParseIsTotal == value_pc = "parsed" => value_output # Raised

\* C2: a record literal [f1 |-> v1, ..., fn |-> vn] with n >= 1 distinct
\* field names and well-formed values parses to the Record with exactly the
\* fields f1..fn in textual order, each with the parsed value of its own vi.
C2_RecordFieldsInOrder ==
  (value_pc = "parsed" /\ literal.t = "record") => value_output = literal

\* C3: a set literal {e1, ..., en} or a sequence literal <<e1, ..., en>> of
\* well-formed elements (nested sets, sequences, records and functions
\* included) parses to the Set / Sequence of exactly the n parsed elements,
\* in source order.
C3_ElementsInOrder ==
  (value_pc = "parsed" /\ literal.t \in {"set", "sequence"}) => value_output = literal

\* The mapping the claim gives a function literal's pairs: one entry per
\* distinct key value, in order of first appearance, with the value of the
\* key's last occurrence.
RECURSIVE DistinctKeyMapping(_, _)
DistinctKeyMapping(pairs, mapping) ==
  IF pairs = <<>> THEN mapping
  ELSE LET key == Head(pairs).kids[1]
           value == Head(pairs).kids[2]
       IN  DistinctKeyMapping(
             Tail(pairs),
             IF \E i \in 1..Len(mapping) : mapping[i].kids[1] = key
             THEN [i \in 1..Len(mapping) |->
                     IF mapping[i].kids[1] = key THEN Pair(key, value) ELSE mapping[i]]
             ELSE Append(mapping, Pair(key, value)))

ScalarKeys(f) == \A i \in 1..Len(f.kids) : f.kids[i].kids[1] \in Scalars

\* C4: a function literal (k1 :> v1 @@ ... @@ kn :> vn) parses to a mapping
\* with one entry per distinct parsed key value, in order of first
\* appearance, a repeated key carrying its last value; keys that parse to
\* different values (TRUE and 1) stay separate entries.  Stated here for
\* scalar keys only.
C4_OneEntryPerDistinctKey ==
  (value_pc = "parsed" /\ literal.t = "function" /\ ScalarKeys(literal))
    => value_output = PyFunction(DistinctKeyMapping(literal.kids, <<>>))

(***************************************************************************)
(* Claims about split_tla_list (under SpecSplit).                          *)
(***************************************************************************)
\* C5: split_tla_list takes a comma as an element separator if and only if
\* the comma lies outside every quoted string and at nesting depth zero,
\* the depth being raised only by { [ ( << and lowered only by } ] ) >>.
\* Stated here for bracket-balanced input only.
C5_SeparatorIffTopLevel ==
  (split_pc = "split" /\ BracketBalanced(split_input))
    => separators(split_input) = TopLevelCommas(split_input)

\* C10: for a bracket-balanced input without delimiter characters inside
\* strings, splitting the elements re-joined with ", " gives the same
\* elements again, in number and in content.
C10_SplitRoundTrips ==
  (/\ split_pc = "resplit"
   /\ BracketBalanced(split_input)
   /\ NoDelimiterInString(split_input))
    => split_again = split_output

\* A balanced input of several elements, one of them with a comma of its
\* own and one that needed trimming, has been split, re-joined and split.
C10_Witness ==
  /\ split_pc = "resplit"
  /\ BracketBalanced(split_input)
  /\ NoDelimiterInString(split_input)
  /\ Len(split_output) >= 2
  /\ \E i \in 1..Len(split_output) : contains(split_output[i], <<",">>)
  /\ join(<<",", " ">>, split_output) # split_input

(***************************************************************************)
(* Claims about parse_tlc_output and main (under Spec).                    *)
(***************************************************************************)
\* A line that starts with "State <N>:".
HeaderLine(raw) == state_match(rstrip(raw)) # None

\* A line of the form "/\ <name> = <value>".
AssignmentLine(raw) == var_match(rstrip(raw)) # None

HeaderPositions == {p \in 1..Len(lines) : HeaderLine(lines[p])}

\* The position of the k-th header line; past the last one, the end of input.
HeaderAt(k) ==
  IF k > Cardinality(HeaderPositions) THEN Len(lines) + 1
  ELSE CHOOSE p \in HeaderPositions :
         Cardinality({q \in HeaderPositions : q < p}) = k - 1

\* The numbers of the header lines, in input order.
HeaderNumbers ==
  [k \in 1..Cardinality(HeaderPositions) |-> state_match(rstrip(lines[HeaderAt(k)]))[1]]

\* The value of the member of a JSON object with the given name.
Member(obj, name) ==
  obj.kids[CHOOSE i \in 1..Len(obj.kids) : obj.kids[i].s = name].kids[1]

\* A function value as a list of [key, value] pairs.
PairList(f) ==
  JArray([i \in 1..Len(f.kids) |->
            JArray(<<to_json(f.kids[i].kids[1]), to_json(f.kids[i].kids[2])>>)])

\* C6: the emitted document encodes every Function value as an ordered
\* list of [key, value] pairs, so that entries whose keys are different
\* values (1 and "1") are both present and distinguishable, and keys that
\* are no strings are emitted without loss.
C6_FunctionsArePairLists ==
  document # None =>
    \A i \in 1..Len(trace[1].states) :
      \A j \in 1..Len(trace[1].states[i].variables) :
        LET value == trace[1].states[i].variables[j].kids[1]
            name == trace[1].states[i].variables[j].s
            state == Member(document[1], <<"s", "t", "a", "t", "e", "s">>).kids[i]
            encoded ==
              Member(Member(state, <<"v", "a", "r", "i", "a", "b", "l", "e", "s">>), name)
        IN  value.t = "function" =>
              Member(encoded, <<"m", "a", "p", "p", "i", "n", "g">>) = PairList(value)

\* C7: parse_tlc_output returns None if and only if no input line starts
\* with "State <N>:"; main then prints a diagnostic, emits no document and
\* exits with a non-zero status; in every other case main emits one
\* document and exits with status zero.
C7_NoTraceIffNoHeader ==
  /\ pc = "returned" => (trace = None <=> HeaderPositions = {})
  /\ pc = "done" =>
       IF HeaderPositions = {}
       THEN document = None /\ exit_status # Some(0) /\ stderr = NoTraceMessage
       ELSE document # None /\ exit_status = Some(0)

\* The assignment lines between the k-th header line and the next one.
AssignmentsOf(k) ==
  {p \in (HeaderAt(k) + 1)..(HeaderAt(k + 1) - 1) : AssignmentLine(lines[p])}

AssignedName(p) == var_match(rstrip(lines[p]))[1][1]

AssignedText(p) == var_match(rstrip(lines[p]))[1][2]

\* C8: in the returned Trace each state's variables hold exactly the names
\* assigned by the assignment lines between that state's header and the
\* next header (or the end of input), each with the parsed value of the
\* last such assignment of the name; no other line contributes.  Stated
\* for the inputs that give one state per header line.
C8_VariablesFromOwnLines ==
  (/\ pc = "returned"
   /\ trace # None
   /\ Len(trace[1].states) = Cardinality(HeaderPositions))
    => \A k \in 1..Len(trace[1].states) :
         LET variables == trace[1].states[k].variables
         IN  /\ {variables[i].s : i \in 1..Len(variables)}
                  = {AssignedName(p) : p \in AssignmentsOf(k)}
             /\ Len(variables) = Cardinality({AssignedName(p) : p \in AssignmentsOf(k)})
             /\ \A i \in 1..Len(variables) :
                  variables[i].kids[1] =
                    parse_tla_value(AssignedText(
                      Max({p \in AssignmentsOf(k) : AssignedName(p) = variables[i].s})))

\* C9: in every returned Trace the state indices are in non-decreasing
\* order and equal, position by position, the numbers of the "State <N>:"
\* header lines in input order.
C9_IndicesFollowHeaders ==
  (pc = "returned" /\ trace # None)
    => LET index == [k \in 1..Len(trace[1].states) |-> trace[1].states[k].state_num]
       IN  /\ \A i, j \in 1..Len(index) : i <= j => index[i] <= index[j]
           /\ index = HeaderNumbers

\* C11: for every Trace returned by parse_tlc_output, the downstream
\* generator applied to its to_dict document produces test text without
\* raising, whatever the values of the nullable fields invariant_violated,
\* property_violated and each state's action.
C11_GeneratorAcceptsDocument ==
  pc = "generated" => test_module.exc = ""

\* The action name a header line carries: the word that follows its first
\* "<", if there is one.
HeaderAction(line) ==
  LET at == find(line, <<"<">>)
      word == take(drop(line, at), run_length(drop(line, at), WordChars))
  IN  IF at = 0 \/ word = <<>> THEN None ELSE Some(word)

\* C14: each "State <N>:" header line seals the open state before it opens
\* the new one and the end of input seals the last open state, so the
\* returned Trace has exactly one state per header line, in header order,
\* each with the index and the optional action name of its own header.
C14_OneStatePerHeader ==
  pc = "returned" =>
    /\ Len(states) = Cardinality(HeaderPositions)
    /\ \A k \in 1..Len(states) :
         /\ k <= Cardinality(HeaderPositions)
         /\ states[k].state_num = HeaderNumbers[k]
         /\ states[k].action = HeaderAction(rstrip(lines[HeaderAt(k)]))

\* s is t or the beginning of t.
IsPrefix(s, t) == Len(s) <= Len(t) /\ SubSeq(t, 1, Len(s)) = s

\* C15: once a state is sealed into states no later line changes its
\* index, action or variables, and states only grows by appending: at
\* every step the previous states sequence is a prefix of the current one.
C15_SealedStatesAreKept == [][IsPrefix(states, states')]_vars

\* A state sealed earlier is followed by a header of its own state and an
\* assignment to that state.
C15_Witness ==
  /\ pc = "reading"
  /\ Len(states) >= 1
  /\ current_vars # <<>>

\* C16: a line announcing "Invariant <name> is violated" or "Property
\* <name> is violated" sets invariant_violated or property_violated to the
\* announced name wherever it stands (so the last announcement of a kind
\* wins), and processing it changes no sealed state and no index, action
\* or variable of the open state.
C16_AnnouncementTouchesNoState ==
  [][(pc = "reading" /\ Len(lines') = Len(lines) + 1) =>
       LET line == rstrip(lines'[Len(lines')])
           invariant == invariant_match(line)
           property == property_match(line)
       IN  /\ invariant # None => invariant_violated' = invariant
           /\ property # None => property_violated' = property
           /\ (invariant # None \/ property # None) =>
                UNCHANGED <<states, current_state_num, current_action, current_vars>>
    ]_vars

\* A line that is no violation announcement, no trace-start marker, no
\* state header and no well-formed assignment.
Ignored(raw) ==
  LET line == rstrip(raw)
  IN  /\ invariant_match(line) = None
      /\ property_match(line) = None
      /\ ~contains(line, TraceStart)
      /\ ~HeaderLine(raw)
      /\ ~AssignmentLine(raw)

\* C17: a line that is neither a violation announcement, a trace-start
\* marker, a state header nor a well-formed assignment is ignored.  The
\* Trace is built line by line from the locals of parse_tlc_output, so the
\* Trace of an input equals the Trace of the input without such lines if
\* each of them leaves every local as it was.
C17_OtherLinesAreIgnored ==
  [][(pc = "reading" /\ Len(lines') = Len(lines) + 1 /\ Ignored(lines'[Len(lines')]))
       => UNCHANGED <<states, invariant_violated, property_violated,
                      current_state_num, current_action, current_vars, in_trace>>
    ]_vars

\* A continuation line has been read while a state with variables is open.
C17_Witness ==
  /\ pc = "reading"
  /\ lines # <<>>
  /\ Ignored(lines[Len(lines)])
  /\ in_trace
  /\ current_vars # <<>>

(***************************************************************************)
(* Claims about model_based_testing (under SpecMbt).                       *)
(***************************************************************************)
\* The elements of a sequence.
Range(seq) == {seq[i] : i \in 1..Len(seq)}

\* Every non-empty sequence of at most depth steps, a step being one of the
\* model's actions with one of its enumerated parameter combinations.
AllSequences(model, depth) ==
  UNION {[1..n -> Range(steps_of(model))] : n \in 1..depth}

\* The test was written for the sequence: its step lines are the ones of
\* the sequence's actions and parameters.
TestOf(test, sequence) == test.steps = rust_steps(sequence)

\* C12: the module generate_test_module(model, depth, max_tests) returns
\* contains a test for every non-empty action sequence of length at most
\* depth over the model's actions and their enumerated parameter
\* combinations, as its header promises.
C12_EverySequenceHasATest ==
  mbt_pc = "done" =>
    \A sequence \in AllSequences(mbt_model, mbt_depth) :
      \E i \in 1..Len(mbt_rust_code.tests) : TestOf(mbt_rust_code.tests[i], sequence)

\* C13: generate_test_module never emits more than max_tests tests, for
\* every max_tests (0 included) and every depth.
C13_AtMostMaxTests ==
  mbt_pc = "done" =>
    /\ Len(mbt_rust_code.tests) <= mbt_max_tests
    /\ mbt_rust_code.count <= mbt_max_tests

\* C18: generate_test_sequences(model, depth) yields each action sequence
\* of length at most depth exactly once, so generate_test_module never
\* spends its max_tests budget on two tests of the same sequence.
C18_EachSequenceOnce ==
  mbt_pc = "done" =>
    LET sequences == generate_test_sequences(mbt_model, mbt_depth)
        tests == mbt_rust_code.tests
    IN  /\ Range(sequences) = AllSequences(mbt_model, mbt_depth) \cup {<<>>}
        /\ Cardinality(Range(sequences)) = Len(sequences)
        /\ \A i, j \in 1..Len(tests) : tests[i].steps = tests[j].steps => i = j

====
